---- MODULE Spec2Model ----
(***************************************************************************)
(* Model of bird_app.py: the point-count entry form (tab1), the CSV        *)
(* backing store (load_data / save_data) and the history view (tab2).      *)
(*                                                                         *)
(* The backing file is modelled as CSV text: a header and rows of text     *)
(* cells.  A DataFrame is modelled as columns plus rows of typed values.   *)
(* pd.read_csv and DataFrame.to_csv are modelled by what they do with      *)
(* their default arguments: read_csv turns the default NA markers into     *)
(* NaN and infers one dtype per column; to_csv writes NaN as the empty     *)
(* cell, an int64 as its digits and a float64 with its fraction.           *)
(***************************************************************************)
EXTENDS Integers, Sequences, FiniteSets, TLC

VARIABLES
    file,            \* bird_data.csv: [exists, header, rows] (rows of text cells)
    tab1_msg,        \* outcome of the last script run's form: none/warning/success
    new_rows,        \* the submit handler's new_rows of the last script run
    loc_filter,      \* widget state of "Filter by Location"
    date_filter,     \* widget state of "Filter by Date"
    pc,              \* per session: position inside the append cycle
    sdf,             \* per session: the DataFrame load_data returned
    sbatch,          \* per session: the batch (new_rows) being appended
    wfile,           \* the CSV text save_data is writing (non-atomic save)
    hist             \* history: store before the cycle(s), order of saves, crash

vars == <<file, tab1_msg, new_rows, loc_filter, date_filter,
          pc, sdf, sbatch, wfile, hist>>

-----------------------------------------------------------------------------
(* Bounds of the model *)

\* the backing store is explored up to this many rows
MaxRows == 2

-----------------------------------------------------------------------------
(* Configuration: bird_app.py lines 6-26 *)

COLUMNS ==
    << "Date", "Location", "Recorder", "Start Time", "End Time",
       "Wind", "Precipitation", "Tide", "Temperature",
       "Species", "Count_le_50m", "Count_gt_50m", "Flythrough", "Notes" >>

\* coordinates in thousandths of a degree
LOCATION_COORDS == [loc \in {"Alligator Creek"} |-> <<27042, -82430>>]

\* the first entry of the 21-entry list
SPECIES_LIST == << "Palm Warbler (PAWA)" >>

-----------------------------------------------------------------------------
(* Values held by a DataFrame cell: NaN, str, int64, float64, and the      *)
(* datetime.date / datetime.time objects the form widgets return.          *)

NaN == [k |-> "nan", s |-> "", n |-> 0]
Str(t) == [k |-> "str", s |-> t, n |-> 0]
Int64(i) == [k |-> "int", s |-> "", n |-> i]
Float64(i) == [k |-> "float", s |-> "", n |-> i]
DateObj(d) == [k |-> "date", s |-> "", n |-> d]
TimeObj(t) == [k |-> "time", s |-> t, n |-> 0]

(* Text of numbers and dates.  IntText[i+1] is str(i); FloatText[i+1] is   *)
(* repr(float(i)); DateText[d] is date.isoformat() of the d-th day.        *)
IntText == << "0", "1", "2", "3", "4", "5", "6", "7", "8", "9", "10", "11", "12" >>
FloatText == << "0.0", "1.0", "2.0", "3.0", "4.0", "5.0", "6.0", "7.0", "8.0",
                "9.0", "10.0", "11.0", "12.0" >>
DateText == << "2024-03-01", "2024-03-02" >>

IntTexts == {IntText[i] : i \in DOMAIN IntText}
FloatTexts == {FloatText[i] : i \in DOMAIN FloatText}
IsIntText(t) == t \in IntTexts
IsFloatText(t) == t \in FloatTexts
ParseInt(t) == (CHOOSE i \in DOMAIN IntText : IntText[i] = t) - 1
ParseFloat(t) ==
    IF IsIntText(t) THEN ParseInt(t)
    ELSE (CHOOSE i \in DOMAIN FloatText : FloatText[i] = t) - 1

\* pandas' default na_values of read_csv
NA_VALUES ==
    { "", "#N/A", "#N/A N/A", "#NA", "-1.#IND", "-1.#QNAN", "-NaN", "-nan",
      "1.#IND", "1.#QNAN", "<NA>", "N/A", "NA", "NULL", "NaN", "None",
      "n/a", "nan", "null" }

Range(f) == {f[x] : x \in DOMAIN f}

-----------------------------------------------------------------------------
(* The backing file and load_data / save_data *)

AbsentFile == [exists |-> FALSE, header |-> <<>>, rows |-> <<>>]

\* str(value) as DataFrame.to_csv writes it (na_rep = "")
CellText(v) ==
    CASE v.k = "nan" -> ""
      [] v.k = "str" -> v.s
      [] v.k = "int" -> IntText[v.n + 1]
      [] v.k = "float" -> FloatText[v.n + 1]
      [] v.k = "date" -> DateText[v.n]
      [] v.k = "time" -> v.s

\* df.to_csv(index=False): the header line and one line per row
to_csv(df) ==
    [ exists |-> TRUE,
      header |-> df.columns,
      rows |-> [i \in DOMAIN df.rows |->
                   [c \in Range(df.columns) |-> CellText(df.rows[i][c])]] ]

\* the dtype read_csv infers for column c of the CSV text f
ColumnDtype(f, c) ==
    LET cells == {f.rows[i][c] : i \in DOMAIN f.rows}
        present == cells \ NA_VALUES
    IN  IF present = {} THEN "float"
        ELSE IF \A t \in present : IsIntText(t)
             THEN (IF cells \cap NA_VALUES = {} THEN "int" ELSE "float")
        ELSE IF \A t \in present : IsIntText(t) \/ IsFloatText(t) THEN "float"
        ELSE "object"

\* one parsed cell
ParseCell(dtype, t) ==
    IF t \in NA_VALUES THEN NaN
    ELSE CASE dtype = "int" -> Int64(ParseInt(t))
           [] dtype = "float" -> Float64(ParseFloat(t))
           [] OTHER -> Str(t)

\* pd.read_csv(FILE_NAME) with its defaults
read_csv(f) ==
    LET dtype == [c \in Range(f.header) |-> ColumnDtype(f, c)]
    IN  [ columns |-> f.header,
          rows |-> [i \in DOMAIN f.rows |->
                       [c \in Range(f.header) |-> ParseCell(dtype[c], f.rows[i][c])]] ]

EmptyFrame == [columns |-> COLUMNS, rows |-> <<>>]

load_data(f) == IF f.exists THEN read_csv(f) ELSE EmptyFrame

save_data(df) == to_csv(df)

\* pd.concat([df, pd.DataFrame(rows)], ignore_index=True)
concat(df, rows) == [columns |-> df.columns, rows |-> df.rows \o rows]

-----------------------------------------------------------------------------
(* tab1: the entry form (lines 51-109).  The inputs the model draws. *)

DATES == {1, 2}
LOC_OPTIONS == <<"Alligator Creek", "Other">>
LOC_TEXTS == {"Marsh"}
OTHER_SPECIES == {"", "NA"}

\* what the four widgets of one species expander hold
WIDGETS ==
    { [c_50 |-> 0, c_gt50 |-> 0, c_fly |-> 0, notes |-> ""],
      [c_50 |-> 0, c_gt50 |-> 0, c_fly |-> 0, notes |-> "heard only"],
      [c_50 |-> 2, c_gt50 |-> 0, c_fly |-> 1, notes |-> ""] }

FORMS ==
    [ entry_date : DATES,
      loc_selection : Range(LOC_OPTIONS),
      loc_text : LOC_TEXTS,
      recorder : {"Ann"},
      start_time : {"08:15:00"},
      end_time : {"08:25:00"},
      temp : {"36F"},
      wind : {"7mph NE"},
      precip : {"none"},
      tide : {"low"},
      sp : [Range(SPECIES_LIST) -> WIDGETS],
      other_sp : OTHER_SPECIES,
      other : WIDGETS ]

\* variant of AnyCount: a note alone keeps the entry
AnyCount_OrNotes(w) == w.c_50 > 0 \/ w.c_gt50 > 0 \/ w.c_fly > 0 \/ w.notes # ""

\* line 95 / line 112: at least one of the three counts is positive
AnyCount(w) == w.c_50 > 0 \/ w.c_gt50 > 0 \/ w.c_fly > 0

Entry(name, w) ==
    [ Species |-> name, Count_le_50m |-> w.c_50, Count_gt_50m |-> w.c_gt50,
      Flythrough |-> w.c_fly, Notes |-> w.notes ]

\* lines 83-99: the loop over the first i entries of SPECIES_LIST
RECURSIVE SpeciesLoop(_, _)
SpeciesLoop(form, i) ==
    IF i = 0 THEN <<>>
    ELSE LET sp == SPECIES_LIST[i]
             w == form.sp[sp]
         IN  SpeciesLoop(form, i - 1)
               \o (IF AnyCount(w) THEN <<Entry(sp, w)>> ELSE <<>>)

\* lines 112-116: the free-text species is appended on submit
OtherEntry(form) ==
    IF form.other_sp # "" /\ AnyCount(form.other)
    THEN <<Entry(form.other_sp, form.other)>>
    ELSE <<>>

\* species_entries when the handler reaches line 118
species_entries(form) == SpeciesLoop(form, Len(SPECIES_LIST)) \o OtherEntry(form)

\* lines 61-64
Location(form) ==
    IF form.loc_selection = "Other" THEN form.loc_text ELSE form.loc_selection

\* lines 124-131: one row of new_rows
Row(form, entry) ==
    [ c \in Range(COLUMNS) |->
        CASE c = "Date" -> DateObj(form.entry_date)
          [] c = "Location" -> Str(Location(form))
          [] c = "Recorder" -> Str(form.recorder)
          [] c = "Start Time" -> TimeObj(form.start_time)
          [] c = "End Time" -> TimeObj(form.end_time)
          [] c = "Wind" -> Str(form.wind)
          [] c = "Precipitation" -> Str(form.precip)
          [] c = "Tide" -> Str(form.tide)
          [] c = "Temperature" -> Str(form.temp)
          [] c = "Species" -> Str(entry.Species)
          [] c = "Count_le_50m" -> Int64(entry.Count_le_50m)
          [] c = "Count_gt_50m" -> Int64(entry.Count_gt_50m)
          [] c = "Flythrough" -> Int64(entry.Flythrough)
          [] c = "Notes" -> Str(entry.Notes) ]

\* lines 122-132
NewRows(form) ==
    LET es == species_entries(form)
    IN  [i \in DOMAIN es |-> Row(form, es[i])]

\* variant of Writes: the guard of line 118 is missing
Writes_Always(form) == TRUE

\* lines 118-135: whether the handler writes, and what it writes
Writes(form) == species_entries(form) # <<>>

Appended(f, rows) == save_data(concat(load_data(f), rows))

-----------------------------------------------------------------------------
(* tab2: filters, map, totals, species summary and export (lines 139-204) *)

RECURSIVE SumSeq(_)
SumSeq(q) == IF q = <<>> THEN 0 ELSE q[1] + SumSeq(Tail(q))

\* Series.unique(): the distinct values in order of first appearance
RECURSIVE Unique(_)
Unique(q) ==
    IF q = <<>> THEN <<>>
    ELSE LET front == Unique(SubSeq(q, 1, Len(q) - 1))
             last == q[Len(q)]
         IN  IF last \in Range(front) THEN front ELSE Append(front, last)

Column(df, c) == [i \in DOMAIN df.rows |-> df.rows[i][c]]

\* pd.to_datetime(text).dt.date
ToDate(v) == CHOOSE d \in DOMAIN DateText : DateText[d] = v.s

\* line 148 and line 150: what the two multiselects offer
LocationOptions(df) == Range(Unique(Column(df, "Location")))
DateOptions(df) == {ToDate(v) : v \in Range(Column(df, "Date"))}

\* lines 154-155
FilterLocation(df, L) ==
    IF L = {} THEN df
    ELSE LET Keep(r) == r["Location"] \in L
         IN  [columns |-> df.columns, rows |-> SelectSeq(df.rows, Keep)]

\* lines 156-159: the DateObj column is added, used and dropped
FilterDate(df, D) ==
    IF D = {} THEN df
    ELSE LET withObj ==
                 [ columns |-> Append(df.columns, "DateObj"),
                   rows |-> [i \in DOMAIN df.rows |->
                               df.rows[i] @@ ("DateObj" :> DateObj(ToDate(df.rows[i]["Date"])))] ]
             Keep(r) == r["DateObj"].n \in D
             kept == [columns |-> withObj.columns, rows |-> SelectSeq(withObj.rows, Keep)]
         IN  [ columns |-> SelectSeq(kept.columns, LAMBDA c : c # "DateObj"),
               rows |-> [i \in DOMAIN kept.rows |->
                           [c \in DOMAIN kept.rows[i] \ {"DateObj"} |-> kept.rows[i][c]]] ]

\* variant of Filtered: line 157-158 filter df instead of filtered_df
Filtered_DateOnDf(df, L, D) ==
    IF D = {} THEN FilterLocation(df, L) ELSE FilterDate(df, D)

\* lines 153-159
Filtered(df, L, D) == FilterDate(FilterLocation(df, L), D)

\* lines 166-177
MapData(fd) ==
    LET locs == Unique(Column(fd, "Location"))
        known == SelectSeq(locs, LAMBDA v : v.k = "str" /\ v.s \in DOMAIN LOCATION_COORDS)
        Records(v) == Cardinality({i \in DOMAIN fd.rows : fd.rows[i]["Location"] = v})
    IN  [i \in DOMAIN known |->
            [ Location |-> known[i].s,
              lat |-> LOCATION_COORDS[known[i].s][1],
              lon |-> LOCATION_COORDS[known[i].s][2],
              Records |-> Records(known[i]) ]]

ColumnSum(fd, c) == SumSeq([i \in DOMAIN fd.rows |-> fd.rows[i][c].n])

\* line 192
TotalBirds(fd) ==
    ColumnSum(fd, "Count_le_50m") + ColumnSum(fd, "Count_gt_50m") + ColumnSum(fd, "Flythrough")

\* line 197: filtered_df["Total"] = ... (the frame itself gains the column)
WithTotal(fd) ==
    [ columns |-> Append(fd.columns, "Total"),
      rows |-> [i \in DOMAIN fd.rows |->
                  fd.rows[i] @@
                    ("Total" :> Int64(fd.rows[i]["Count_le_50m"].n
                                      + fd.rows[i]["Count_gt_50m"].n
                                      + fd.rows[i]["Flythrough"].n))] ]

\* groupby("Species") with its default dropna=True: NaN keys form no group
Groups(fd) == {v \in Range(Column(fd, "Species")) : v.k # "nan"}

GroupTotal(fd, sp) ==
    SumSeq([i \in DOMAIN fd.rows |->
              IF fd.rows[i]["Species"] = sp THEN fd.rows[i]["Total"].n ELSE 0])

\* line 198: the orders sort_values(ascending=False) may return (ties in any order)
SpeciesSummaries(fd) ==
    LET g == Groups(fd)
        n == Cardinality(g)
        orders == {o \in [1..n -> g] :
                      /\ \A i, j \in 1..n : i # j => o[i] # o[j]
                      /\ \A i \in 1..(n - 1) :
                            GroupTotal(fd, o[i]) >= GroupTotal(fd, o[i + 1])}
    IN  {[i \in 1..n |-> [Species |-> o[i], Total |-> GroupTotal(fd, o[i])]] : o \in orders}

\* line 201
ExportCsv(fd) == to_csv(fd)

NoView ==
    [ shown |-> FALSE, filtered_df |-> EmptyFrame, map_data |-> <<>>,
      total_birds |-> 0, species_summary |-> <<>>, csv |-> AbsentFile ]

\* lines 142-204: everything tab2 can render for the store f and the selections
Tab2(f, L, D) ==
    LET df == load_data(f)
        fd == Filtered(df, L, D)
        fdT == IF fd.rows # <<>> THEN WithTotal(fd) ELSE fd
        summaries == IF fd.rows # <<>> THEN SpeciesSummaries(fdT) ELSE {<<>>}
    IN  IF df.rows = <<>> THEN {NoView}
        ELSE { [ shown |-> TRUE,
                 filtered_df |-> fd,
                 map_data |-> MapData(fd),
                 total_birds |-> TotalBirds(fd),
                 species_summary |-> ss,
                 csv |-> ExportCsv(fdT) ] : ss \in summaries }

-----------------------------------------------------------------------------
(* One session: every interaction reruns the script from top to bottom *)

Idle == [s \in {1, 2} |-> "idle"]
NoFrames == [s \in {1, 2} |-> EmptyFrame]
NoBatches == [s \in {1, 2} |-> <<>>]
NoHist == [before |-> AbsentFile, order |-> <<>>, overlap |-> FALSE, crashed |-> FALSE]

Init ==
    /\ file = AbsentFile
    /\ tab1_msg = "none"
    /\ new_rows = <<>>
    /\ loc_filter = {}
    /\ date_filter = {}
    /\ pc = Idle
    /\ sdf = NoFrames
    /\ sbatch = NoBatches
    /\ wfile = AbsentFile
    /\ hist = NoHist

\* what tab2 shows in the current state: it is rendered at the end of every
\* script run, from the file as the run left it and the two selections
Views == Tab2(file, loc_filter, date_filter)

\* "Save Entry" is clicked: lines 111-136 run, then tab2 is rendered
SaveEntry(form) ==
    /\ Len(file.rows) + Len(species_entries(form)) <= MaxRows
    /\ IF Writes(form)
       THEN /\ file' = Appended(file, NewRows(form))
            /\ new_rows' = NewRows(form)
            /\ tab1_msg' = "success"
       ELSE /\ file' = file
            /\ new_rows' = <<>>
            /\ tab1_msg' = "warning"
    /\ UNCHANGED <<loc_filter, date_filter>>
    /\ UNCHANGED <<pc, sdf, sbatch, wfile, hist>>

\* a filter selection is changed: the script reruns with submitted = False
SelectFilters(L, D) ==
    /\ file.exists
    /\ L \subseteq LocationOptions(load_data(file))
    /\ D \subseteq DateOptions(load_data(file))
    /\ loc_filter' = L
    /\ date_filter' = D
    /\ tab1_msg' = "none"
    /\ new_rows' = <<>>
    /\ UNCHANGED <<file, pc, sdf, sbatch, wfile, hist>>

Next ==
    \/ \E form \in FORMS : SaveEntry(form)
    \/ \E L \in SUBSET LocationOptions(load_data(file)),
          D \in SUBSET DateOptions(load_data(file)) : SelectFilters(L, D)

Spec == Init /\ [][Next]_vars

-----------------------------------------------------------------------------
(* The append cycle step by step: df = load_data() (line 121), then        *)
(* save_data (line 135, line 40).  to_csv opens FILE_NAME for writing,     *)
(* which truncates it, and then writes the header and the rows; nothing    *)
(* in the handler writes to a temporary file or renames one.               *)

TruncatedFile == [exists |-> TRUE, header |-> <<>>, rows |-> <<>>]

\* read_csv raises EmptyDataError on a file that holds no header line
CanRead(f) == ~f.exists \/ f.header # <<>>

\* line 121 and lines 122-132 of a submission that has entries
StartAppend(form) ==
    /\ pc[1] = "idle"
    /\ CanRead(file)
    /\ Writes(form)
    /\ Len(file.rows) + Len(species_entries(form)) <= MaxRows
    /\ sdf' = [sdf EXCEPT ![1] = load_data(file)]
    /\ sbatch' = [sbatch EXCEPT ![1] = NewRows(form)]
    /\ pc' = [pc EXCEPT ![1] = "loaded"]
    /\ hist' = [before |-> file, order |-> <<>>, overlap |-> FALSE, crashed |-> FALSE]
    /\ UNCHANGED <<file, tab1_msg, new_rows, loc_filter, date_filter, wfile>>

\* line 40: to_csv opens the file for writing
OpenFile ==
    /\ pc[1] = "loaded"
    /\ wfile' = save_data(concat(sdf[1], sbatch[1]))
    /\ file' = TruncatedFile
    /\ pc' = [pc EXCEPT ![1] = "writing"]
    /\ UNCHANGED <<tab1_msg, new_rows, loc_filter, date_filter, sdf, sbatch, hist>>

\* line 40: the next line of the CSV text reaches the file
WriteLine ==
    /\ pc[1] = "writing"
    /\ file # wfile
    /\ file' = IF file.header = <<>>
               THEN [file EXCEPT !.header = wfile.header]
               ELSE [file EXCEPT !.rows = Append(@, wfile.rows[Len(@) + 1])]
    /\ UNCHANGED <<tab1_msg, new_rows, loc_filter, date_filter, pc, sdf, sbatch, wfile, hist>>

\* line 40 returns; line 136 reports success
CloseFile ==
    /\ pc[1] = "writing"
    /\ file = wfile
    /\ pc' = [pc EXCEPT ![1] = "idle"]
    /\ tab1_msg' = "success"
    /\ new_rows' = sbatch[1]
    /\ UNCHANGED <<file, loc_filter, date_filter, sdf, sbatch, wfile, hist>>

\* the script is interrupted between load_data and the end of save_data
Interrupt ==
    /\ pc[1] \in {"loaded", "writing"}
    /\ pc' = [pc EXCEPT ![1] = "idle"]
    /\ hist' = [hist EXCEPT !.crashed = TRUE]
    /\ tab1_msg' = "none"
    /\ UNCHANGED <<file, new_rows, loc_filter, date_filter, sdf, sbatch, wfile>>

\* the next script run on a file without a header: load_data raises (line 142)
LoadRaises ==
    /\ pc[1] = "idle"
    /\ ~CanRead(file)
    /\ tab1_msg' = "error"
    /\ UNCHANGED <<file, new_rows, loc_filter, date_filter, pc, sdf, sbatch, wfile, hist>>

NextCrash ==
    \/ \E form \in FORMS : StartAppend(form)
    \/ OpenFile
    \/ WriteLine
    \/ CloseFile
    \/ Interrupt
    \/ LoadRaises

SpecCrash == Init /\ [][NextCrash]_vars

-----------------------------------------------------------------------------
(* Two sessions, one append cycle each, on the one backing file *)

Other(s) == 3 - s

\* session s runs line 121 (and has built new_rows)
Load(s, form) ==
    /\ pc[s] = "idle"
    /\ Writes(form)
    /\ Len(file.rows) + Len(species_entries(form)) <= MaxRows
    /\ sdf' = [sdf EXCEPT ![s] = load_data(file)]
    /\ sbatch' = [sbatch EXCEPT ![s] = NewRows(form)]
    /\ pc' = [pc EXCEPT ![s] = "loaded"]
    /\ hist' = [hist EXCEPT !.overlap = @ \/ pc[Other(s)] = "loaded"]
    /\ UNCHANGED <<file, tab1_msg, new_rows, loc_filter, date_filter, wfile>>

\* session s runs lines 134-135
Save(s) ==
    /\ pc[s] = "loaded"
    /\ file' = save_data(concat(sdf[s], sbatch[s]))
    /\ pc' = [pc EXCEPT ![s] = "done"]
    /\ hist' = [hist EXCEPT !.order = Append(@, s)]
    /\ UNCHANGED <<tab1_msg, new_rows, loc_filter, date_filter, sdf, sbatch, wfile>>

NextTwo ==
    \/ \E s \in {1, 2}, form \in FORMS : Load(s, form)
    \/ \E s \in {1, 2} : Save(s)

SpecTwo == Init /\ [][NextTwo]_vars

-----------------------------------------------------------------------------
(* Properties *)

IsPrefix(a, b) == Len(a) <= Len(b) /\ SubSeq(b, 1, Len(a)) = a

(* What a cell says, whatever its representation: blank (NaN or the empty  *)
(* text), a number, or a text.                                             *)
Content(v) ==
    LET t == CellText(v)
    IN  IF v.k = "nan" \/ t = "" THEN [k |-> "blank", s |-> "", n |-> 0]
        ELSE IF v.k \in {"int", "float"} THEN [k |-> "number", s |-> "", n |-> v.n]
        ELSE IF IsIntText(t) \/ IsFloatText(t)
             THEN [k |-> "number", s |-> "", n |-> ParseFloat(t)]
        ELSE [k |-> "text", s |-> t, n |-> 0]

ContentRows(rows) ==
    [i \in DOMAIN rows |-> [c \in Range(COLUMNS) |-> Content(rows[i][c])]]

\* the rows a frame's to_csv text holds
TextRows(rows) == to_csv([columns |-> COLUMNS, rows |-> rows]).rows

\* the filter as the specification states it
Passes(r, L, D) ==
    /\ L = {} \/ r["Location"] \in L
    /\ D = {} \/ ToDate(r["Date"]) \in D

ExpectedFiltered ==
    LET df == load_data(file)
        Keep(r) == Passes(r, loc_filter, date_filter)
    IN  [columns |-> df.columns, rows |-> SelectSeq(df.rows, Keep)]

RowTotal(r) == r["Count_le_50m"].n + r["Count_gt_50m"].n + r["Flythrough"].n

PositiveText(t) == (IsIntText(t) \/ IsFloatText(t)) /\ ParseFloat(t) > 0

(* C1: after a submission with a non-empty batch B on store contents R,    *)
(* load_data returns the rows of R in their order followed by the rows of  *)
(* B in batch order, |R| + |B| rows in all; and load_data on an absent     *)
(* file returns the empty collection.                                      *)
C1_AppendRoundTrip ==
    /\ [](~file.exists => load_data(file) = EmptyFrame)
    /\ [][tab1_msg' = "success" =>
            /\ Len(load_data(file').rows) = Len(load_data(file).rows) + Len(new_rows')
            /\ ContentRows(load_data(file').rows)
                 = ContentRows(load_data(file).rows) \o ContentRows(new_rows')]_vars

(* C2: every persisted row has at least one of Count_le_50m, Count_gt_50m, *)
(* Flythrough strictly positive.                                           *)
C2_PersistedRowsHaveACount ==
    \A i \in DOMAIN file.rows :
        \/ PositiveText(file.rows[i]["Count_le_50m"])
        \/ PositiveText(file.rows[i]["Count_gt_50m"])
        \/ PositiveText(file.rows[i]["Flythrough"])

\* a submission persisted one entry of the form's two and left the other out
C2_Witness ==
    /\ tab1_msg = "success"
    /\ Len(new_rows) = 1
    /\ Len(file.rows) = 2

(* C3: a submission whose species_entries is empty gives the warning and   *)
(* writes nothing: the file's content and existence are unchanged.         *)
C3_EmptySubmissionNoWrite ==
    [][(tab1_msg' # "none" /\ new_rows' = <<>>) =>
          (tab1_msg' = "warning" /\ file' = file)]_vars

C3_Witness == tab1_msg = "warning" /\ file.exists /\ file.rows # <<>>

(* C4: the exported CSV has exactly the 14 fixed columns in the fixed      *)
(* order, and its rows, parsed back, equal the filtered record set.        *)
C4_ExportSchema ==
    \A v \in Views :
        v.shown =>
            /\ v.csv.header = COLUMNS
            /\ ContentRows(read_csv(v.csv).rows) = ContentRows(v.filtered_df.rows)

(* C5: the filtered view is the subsequence, in original order, of the     *)
(* records r with (L empty or r.Location in L) and (D empty or the         *)
(* calendar date of r.Date in D).                                          *)
C5_FilterIsConjunctiveSubsequence ==
    \A v \in Views : v.shown => v.filtered_df = ExpectedFiltered

\* both selections made, some record kept and some record filtered out
C5_Witness ==
    /\ loc_filter # {}
    /\ date_filter # {}
    /\ \E v \in Views :
          /\ v.shown
          /\ v.filtered_df.rows # <<>>
          /\ Len(v.filtered_df.rows) < Len(file.rows)

(* C6: the map summary has exactly one tuple per distinct known Location   *)
(* of the filtered set, with its coordinates and its number of filtered    *)
(* records; a record at an unknown location yields no tuple, yet is in the *)
(* table, in the total count and in the species summary.                   *)
C6_MapSummary ==
    \A v \in Views :
        v.shown =>
            LET rows == ExpectedFiltered.rows
                known == {r["Location"].s : r \in {x \in Range(rows) :
                              x["Location"].k = "str"
                              /\ x["Location"].s \in DOMAIN LOCATION_COORDS}}
                unknown == {i \in DOMAIN rows :
                              ~(rows[i]["Location"].k = "str"
                                /\ rows[i]["Location"].s \in DOMAIN LOCATION_COORDS)}
            IN  /\ Len(v.map_data) = Cardinality(known)
                /\ Range(v.map_data) =
                     { [ Location |-> l,
                         lat |-> LOCATION_COORDS[l][1],
                         lon |-> LOCATION_COORDS[l][2],
                         Records |-> Cardinality({i \in DOMAIN rows :
                                                    rows[i]["Location"] = Str(l)}) ]
                       : l \in known }
                /\ v.filtered_df.rows = rows
                /\ v.total_birds = SumSeq([i \in DOMAIN rows |-> RowTotal(rows[i])])
                /\ \A i \in unknown :
                      \E j \in DOMAIN v.species_summary :
                          v.species_summary[j].Species = rows[i]["Species"]

(* C7: the species summary maps each Species of a non-empty filtered set   *)
(* to the sum of its records' three counts, holds no other species and is  *)
(* ordered by non-increasing total; the total count is the sum of the      *)
(* three counts over all filtered records, 0 for none, and is additive     *)
(* over two distinct locations.                                            *)
C7_SpeciesSummary ==
    \A v \in Views :
        v.shown =>
            LET rows == ExpectedFiltered.rows
                ss == v.species_summary
                SpeciesSum(sp) ==
                    SumSeq([i \in DOMAIN rows |->
                              IF rows[i]["Species"] = sp THEN RowTotal(rows[i]) ELSE 0])
            IN  /\ {ss[j].Species : j \in DOMAIN ss} = {r["Species"] : r \in Range(rows)}
                /\ \A j \in DOMAIN ss : ss[j].Total = SpeciesSum(ss[j].Species)
                /\ \A j, k \in DOMAIN ss : j # k => ss[j].Species # ss[k].Species
                /\ \A j \in 1..(Len(ss) - 1) : ss[j].Total >= ss[j + 1].Total
                /\ v.total_birds = SumSeq([i \in DOMAIN rows |-> RowTotal(rows[i])])
                /\ \A A, B \in LocationOptions(load_data(file)) :
                      A # B =>
                        TotalBirds(Filtered(load_data(file), {A, B}, date_filter))
                          = TotalBirds(Filtered(load_data(file), {A}, date_filter))
                            + TotalBirds(Filtered(load_data(file), {B}, date_filter))

(* C8: an append interrupted between load_data and the end of save_data    *)
(* leaves the store at exactly R or at exactly R followed by B.            *)
C8_NoPartialFailure ==
    hist.crashed =>
        \/ file = hist.before
        \/ file = save_data(concat(sdf[1], sbatch[1]))

(* C9: two append cycles that do not overlap leave R followed by both      *)
(* batches in the order the cycles ran.                                    *)
C9_SequentialAppends ==
    (pc[1] = "done" /\ pc[2] = "done" /\ ~hist.overlap) =>
        file.rows = hist.before.rows
                      \o TextRows(sbatch[hist.order[1]])
                      \o TextRows(sbatch[hist.order[2]])

\* C9, second half: both sessions loaded before either saved, and the final
\* store holds only the batch of the session that saved last, with no error
C9_LostUpdate ==
    /\ pc[1] = "done" /\ pc[2] = "done" /\ hist.overlap
    /\ sdf[1] = sdf[2]
    /\ file.rows = hist.before.rows \o TextRows(sbatch[hist.order[2]])
    /\ tab1_msg # "error"

(* C10: the store changes only through a successful non-empty submission,  *)
(* and every change extends it: the content before a step is a prefix of   *)
(* the content after it.                                                   *)
C10_StoreOnlyGrows ==
    [][/\ IsPrefix(file.rows, file'.rows)
       /\ file' # file => (tab1_msg' = "success" /\ new_rows' # <<>>)]_vars

====
